---------------------------- MODULE Spec2Model ----------------------------
(***************************************************************************)
(* Model of custom_components/mypv/config_flow.py: the mypv setup wizard   *)
(* (MypvConfigFlow: steps user, sensors, import) and the options editor    *)
(* (MypvOptionsFlowHandler: step init), run by the host runtime as flow    *)
(* sessions that suspend at every await and between user interactions.     *)
(***************************************************************************)
EXTENDS Naturals, Sequences, FiniteSets, TLC

(***************************************************************************)
(* Bounds of the model.                                                    *)
(***************************************************************************)
\* Longest key list of a data.jsn JSON object.
MaxKeys == 2

\* The wizard sessions the runtime starts, numbered in the order it starts
\* them; both may be in progress at the same time.
Flows == {1, 2}

(***************************************************************************)
(* Constants of the program and its environment.                           *)
(***************************************************************************)
CONF_HOST == "host"
CONF_MONITORED_CONDITIONS == "monitored_conditions"

\* The hosts a user or an import can name.
Hosts == {"192.168.1.50", "192.168.1.51"}

\* const.SENSOR_TYPES (const.py is not among the sources): an ordered table
\* from sensor-type identifier to a list whose first element is the label.
SENSOR_TYPES ==
    << [key |-> "temp1",        value |-> <<"Temperature 1", "C">>],
       [key |-> "power1_solar", value |-> <<"Power 1 solar", "W">>] >>

\* Keys a device may report in data.jsn: the table's and one it does not know.
JsonKeys == {"temp1", "power1_solar", "unrelated"}

DEFAULT_MONITORED_CONDITIONS == {"power1_solar", "temp1"}

\* The default of the host form before any input (line 99).
DEFAULT_HOST == "192.168.0.0"

(***************************************************************************)
(* Python values: None, a string, an absent dictionary key.                *)
(***************************************************************************)
PyNone == [t |-> "none", v |-> ""]
PyStr(s) == [t |-> "str", v |-> s]
Absent == [t |-> "absent", v |-> ""]

\* dict.get(key, default) on a looked-up slot.
DictGet(slot, default) == IF slot.t = "absent" THEN default ELSE slot

\* str() as an f-string applies it.
Format(x) == IF x.t = "none" THEN "None" ELSE x.v

EmptyDict == [k \in {} |-> ""]

(***************************************************************************)
(* The device: what one GET can come back with.                            *)
(***************************************************************************)
\* requests.get raised before any response was read.
TransportErrors == {"ConnectTimeout", "ReadTimeout", "ConnectionError"}

HttpStatuses == {200, 404, 503}

\* The identity a device at host h reports in mypv_dev.jsn.
DeviceInfo(h) ==
    IF h = "192.168.1.50"
    THEN [type |-> "object", device |-> PyStr("E3"), number |-> PyStr("7")]
    ELSE [type |-> "object", device |-> PyStr("AC"), number |-> PyStr("8")]

ArrayBody == [type |-> "array", device |-> Absent, number |-> Absent]
TextBody == [type |-> "text", device |-> Absent, number |-> Absent]

\* Bodies of mypv_dev.jsn at host h: its JSON object, a JSON array, no JSON.
DevBodies(h) == {DeviceInfo(h), ArrayBody, TextBody}

\* Lists of distinct keys, in the order the JSON object gives them.
KeyLists ==
    {ks \in UNION {[1..n -> JsonKeys] : n \in 0..MaxKeys} :
        \A i, j \in DOMAIN ks : i # j => ks[i] # ks[j]}

\* Bodies of data.jsn: a JSON object with its keys, a JSON array, no JSON.
DataBodies ==
    {[type |-> "object", keys |-> ks] : ks \in KeyLists}
        \cup {[type |-> "array", keys |-> <<>>], [type |-> "text", keys |-> <<>>]}

\* What GET mypv_dev.jsn at host h comes back with: an exception of the
\* transport, an error status (its body is not read), or a body with status 200.
DevReplies(h) ==
    {[kind |-> "exception", exc |-> e, status |-> 0, body |-> TextBody] :
        e \in TransportErrors}
        \cup {[kind |-> "response", exc |-> "", status |-> s, body |-> TextBody] :
                s \in HttpStatuses \ {200}}
        \cup {[kind |-> "response", exc |-> "", status |-> 200, body |-> b] :
                b \in DevBodies(h)}

\* What GET data.jsn comes back with.
DataReplies ==
    {[kind |-> "exception", exc |-> e, status |-> 0,
      body |-> [type |-> "text", keys |-> <<>>]] : e \in TransportErrors}
        \cup {[kind |-> "response", exc |-> "", status |-> s,
                body |-> [type |-> "text", keys |-> <<>>]] : s \in HttpStatuses \ {200}}
        \cup {[kind |-> "response", exc |-> "", status |-> 200, body |-> b] :
                b \in DataBodies}

\* The exceptions of the request library (all are RequestException).
RequestExceptions == TransportErrors \cup {"HTTPError", "JSONDecodeError"}

\* requests.get, raise_for_status and response.json in a row: the name of the
\* exception raised, or "" when the JSON value is returned.
Raised(reply) ==
    IF reply.kind = "exception" THEN reply.exc
    ELSE IF reply.status >= 400 /\ reply.status < 600 THEN "HTTPError"
    ELSE IF reply.body.type = "text" THEN "JSONDecodeError"
    ELSE ""


(***************************************************************************)
(* State.                                                                  *)
(***************************************************************************)
VARIABLES
    entries,                \* hass.config_entries.async_entries(DOMAIN), in order of creation
    pc,                     \* per flow: where the runtime holds the session
    source,                 \* per flow: "user" (interactive) or "import"
    host,                   \* per flow: self._host
    errors,                 \* per flow: self._errors
    info,                   \* per flow: self._info
    filtered_sensor_types,  \* per flow: self._filtered_sensor_types
    user_input,             \* per flow: the user_input async_step_import holds across its awaits
    can_connect,            \* per flow: what the session's last _check_host returned
    log,                    \* per flow: the last record the session wrote to _LOGGER
    result,                 \* per flow: what the last step returned to the runtime
    opt                     \* the options editor session (MypvOptionsFlowHandler)

vars == <<entries, pc, source, host, errors, info, filtered_sensor_types, user_input,
          can_connect, log, result, opt>>

\* self._host = None
NoHost == "None"

\* No user_input is held.
NoInput ==
    [host |-> NoHost, has_conditions |-> FALSE, monitored_conditions |-> {},
     device |-> Absent, number |-> Absent]

\* What the sensors form submits: the schema's one field.
FormInput(sel) ==
    [host |-> NoHost, has_conditions |-> TRUE, monitored_conditions |-> sel,
     device |-> Absent, number |-> Absent]

\* What an import caller passes: a host, the conditions (or none at all; the
\* caller is not held to the catalog) and, possibly, the device and number of
\* the title.
ImportInputs ==
    {[host |-> h, has_conditions |-> TRUE, monitored_conditions |-> sel,
      device |-> Absent, number |-> Absent] : h \in Hosts, sel \in {{}, {"temp1"}}}
        \cup {[host |-> h, has_conditions |-> TRUE, monitored_conditions |-> {"temp1"},
               device |-> PyStr("IMP"), number |-> PyStr("0")] : h \in Hosts}
        \cup {[host |-> h, has_conditions |-> FALSE, monitored_conditions |-> {},
               device |-> Absent, number |-> Absent] : h \in Hosts}

\* What a step returns to the runtime; NoResult: nothing was returned yet.
NoResult ==
    [type |-> "none", step_id |-> "", errors |-> EmptyDict, default |-> {},
     options |-> {}, reason |-> "", title |-> "", data |-> EmptyDict]

\* The step has not returned: it awaits an executor job.
Pending == [NoResult EXCEPT !.type = "pending"]

\* async_show_form(step_id, data_schema, errors)
ShowForm(step, errs, default, offered) ==
    [NoResult EXCEPT !.type = "form", !.step_id = step, !.errors = errs,
                     !.default = default, !.options = offered]

\* async_abort(reason)
Abort(reason) == [NoResult EXCEPT !.type = "abort", !.reason = reason]

\* async_create_entry(title, data)
CreateEntry(title, data) ==
    [NoResult EXCEPT !.type = "create_entry", !.title = title, !.data = data]

\* An exception that leaves the step.
Raise(exc) == [NoResult EXCEPT !.type = "raise", !.reason = exc]

\* d[k] = v on a dictionary.
DictSet(d, k, v) == [x \in DOMAIN d \cup {k} |-> IF x = k THEN v ELSE d[x]]

\* self._info = {}
EmptyInfo == [type |-> "object", device |-> Absent, number |-> Absent]

\* config_entry.options of a new entry: {}
NoOptions == [k \in {} |-> {}]

(***************************************************************************)
(* The functions of config_flow.py.                                        *)
(***************************************************************************)
\* mypv_entries(hass): the hosts of the persisted entries.
mypv_entries(es) == {es[i].data.host : i \in DOMAIN es}

\* A faulty variant: looks the host up among the entries' titles.
HostInTitlesExists(h) == h \in {entries[i].title : i \in DOMAIN entries}

\* MypvConfigFlow._host_in_configuration_exists
HostInConfigurationExists(h) == h \in mypv_entries(entries)

\* A faulty variant: the first except clause catches ConnectTimeout alone.
CouldNotConnectTimeoutOnly == {"ConnectTimeout"}

\* The first except clause of _check_host.
CouldNotConnect == {"ConnectTimeout", "HTTPError"}

\* A faulty variant: a successful probe keeps the device info the session
\* already holds.
CheckHostKeepingInfo(reply, errs, inf) ==
    LET exc == Raised(reply) IN
    IF exc = ""
    THEN [ret |-> TRUE, errors |-> errs,
          info |-> IF inf = [type |-> "object", device |-> Absent, number |-> Absent]
                   THEN reply.body ELSE inf,
          log |-> ""]
    ELSE IF exc \in CouldNotConnect
    THEN [ret |-> FALSE, errors |-> DictSet(errs, CONF_HOST, "could_not_connect"),
          info |-> inf, log |-> "Connection error"]
    ELSE [ret |-> FALSE, errors |-> DictSet(errs, CONF_HOST, "unexpected_error"),
          info |-> inf, log |-> "Unexpected error"]

\* MypvConfigFlow._check_host: the value returned, self._errors and self._info
\* after it, and the record it logs ("" when none).
CheckHost(reply, errs, inf) ==
    LET exc == Raised(reply) IN
    IF exc = "" THEN [ret |-> TRUE, errors |-> errs, info |-> reply.body, log |-> ""]
    ELSE IF exc \in CouldNotConnect
    THEN [ret |-> FALSE, errors |-> DictSet(errs, CONF_HOST, "could_not_connect"),
          info |-> inf, log |-> "Connection error"]
    ELSE [ret |-> FALSE, errors |-> DictSet(errs, CONF_HOST, "unexpected_error"),
          info |-> inf, log |-> "Unexpected error"]

\* A faulty variant: the loop puts every found key in front of the earlier ones.
RECURSIVE FilterSensorTypesReversed(_, _)
FilterSensorTypesReversed(table, json_keys) ==
    IF table = <<>> THEN <<>>
    ELSE LET rest == FilterSensorTypesReversed(Tail(table), json_keys) IN
         IF Head(table).key \in json_keys
         THEN rest \o <<[key |-> Head(table).key, label |-> Head(table).value[1]]>>
         ELSE rest

\* The loop of _get_sensors over SENSOR_TYPES.items(), lines 75-77.
RECURSIVE FilterSensorTypes(_, _)
FilterSensorTypes(table, json_keys) ==
    IF table = <<>> THEN <<>>
    ELSE LET rest == FilterSensorTypes(Tail(table), json_keys) IN
         IF Head(table).key \in json_keys
         THEN <<[key |-> Head(table).key, label |-> Head(table).value[1]]>> \o rest
         ELSE rest

\* set(data.keys())
KeySet(ks) == {ks[i] : i \in DOMAIN ks}

\* A faulty variant: the except clause logs and raises the exception again.
GetSensorsReraising(reply, catalog) ==
    LET exc == Raised(reply) IN
    IF exc # ""
    THEN [raised |-> exc, catalog |-> <<>>, log |-> "Error fetching sensor data"]
    ELSE IF reply.body.type # "object"
    THEN [raised |-> "AttributeError", catalog |-> catalog, log |-> ""]
    ELSE LET found == FilterSensorTypes(SENSOR_TYPES, KeySet(reply.body.keys)) IN
         [raised |-> "", catalog |-> found,
          log |-> IF found = <<>> THEN "No matching sensors found on the device." ELSE ""]

\* MypvConfigFlow._get_sensors: the exception that leaves it ("" when none),
\* self._filtered_sensor_types after it and the record it logs ("" when none).
GetSensors(reply, catalog) ==
    LET exc == Raised(reply) IN
    IF exc # ""
    THEN [raised |-> "", catalog |-> <<>>, log |-> "Error fetching sensor data"]
    ELSE IF reply.body.type # "object"
    THEN [raised |-> "AttributeError", catalog |-> catalog, log |-> ""]
    ELSE LET found == FilterSensorTypes(SENSOR_TYPES, KeySet(reply.body.keys)) IN
         [raised |-> "", catalog |-> found,
          log |-> IF found = <<>> THEN "No matching sensors found on the device." ELSE ""]

\* The keys of a catalog (a dict keeps its keys in insertion order).
Keys(catalog) == {catalog[i].key : i \in DOMAIN catalog}

\* The default of the sensors form, lines 123-125.
DefaultMonitoredConditions(es) ==
    IF es # <<>> THEN {} ELSE DEFAULT_MONITORED_CONDITIONS

\* async_step_sensors(None), lines 123-137.
SensorsForm(es, errs, catalog) ==
    ShowForm("sensors", errs, DefaultMonitoredConditions(es), Keys(catalog))

\* The config entry the runtime persists for a create_entry result of the wizard.
ConfigEntry(res) == [title |-> res.title, data |-> res.data, options |-> NoOptions]

\* async_step_sensors(user_input), lines 111-121: self._info after it and what
\* it returns, or the exception that leaves it.
SensorsSubmitted(input, hst, inf, catalog) ==
    IF inf.type # "object"
    THEN [info |-> inf, result |-> Raise("AttributeError")]
    ELSE LET dev == DictGet(input.device, DictGet(inf.device, PyNone))
             num == DictGet(input.number, DictGet(inf.number, PyNone))
             inf2 == [inf EXCEPT !.device = dev, !.number = num]
         IN IF ~input.has_conditions
            THEN [info |-> inf2, result |-> Raise("KeyError")]
            ELSE [info |-> inf2,
                  result |-> CreateEntry(Format(dev) \o " - " \o Format(num),
                                [host |-> hst,
                                 monitored_conditions |-> input.monitored_conditions,
                                 filtered_sensor_types |-> catalog])]

\* A faulty variant: the runtime persists whatever the step returned.
PersistAnyResult(es, res) ==
    Append(es, [title |-> res.title, data |-> res.data, options |-> [k \in {} |-> {}]])

\* The entries after the runtime has handled what a wizard step returned.
Persist(es, res) ==
    IF res.type = "create_entry" THEN Append(es, ConfigEntry(res)) ELSE es

\* The user form, lines 99-107.
UserForm(errs, h) == ShowForm("user", errs, {h}, {})

(***************************************************************************)
(* Initial state: no entry, no session.                                    *)
(***************************************************************************)
OptClosed == [pc |-> "closed", entry |-> 0, filtered_sensor_types |-> <<>>,
              result |-> NoResult]

Init ==
    /\ entries = <<>>
    /\ pc = [f \in Flows |-> "idle"]
    /\ source = [f \in Flows |-> "user"]
    /\ host = [f \in Flows |-> NoHost]
    /\ errors = [f \in Flows |-> EmptyDict]
    /\ info = [f \in Flows |-> EmptyInfo]
    /\ filtered_sensor_types = [f \in Flows |-> <<>>]
    /\ user_input = [f \in Flows |-> NoInput]
    /\ can_connect = [f \in Flows |-> FALSE]
    /\ log = [f \in Flows |-> ""]
    /\ result = [f \in Flows |-> NoResult]
    /\ opt = OptClosed

(***************************************************************************)
(* The steps of the setup wizard.                                          *)
(***************************************************************************)
\* The runtime numbers its sessions in the order it starts them.
NextFlow(f) == pc[f] = "idle" /\ \A g \in Flows : g < f => pc[g] # "idle"

\* The runtime drops the flow object of session f (the flow has ended or was
\* abandoned); what the step returned, res, stays with the caller.
Dropped(f, res) ==
    /\ pc' = [pc EXCEPT ![f] = "done"]
    /\ source' = [source EXCEPT ![f] = "user"]
    /\ host' = [host EXCEPT ![f] = NoHost]
    /\ errors' = [errors EXCEPT ![f] = EmptyDict]
    /\ info' = [info EXCEPT ![f] = EmptyInfo]
    /\ filtered_sensor_types' = [filtered_sensor_types EXCEPT ![f] = <<>>]
    /\ user_input' = [user_input EXCEPT ![f] = NoInput]
    /\ can_connect' = [can_connect EXCEPT ![f] = FALSE]
    /\ log' = [log EXCEPT ![f] = ""]
    /\ result' = [result EXCEPT ![f] = res]

\* The runtime starts an interactive session: async_step_user(None).
UserInit(f) ==
    /\ NextFlow(f)
    /\ pc' = [pc EXCEPT ![f] = "user"]
    /\ source' = [source EXCEPT ![f] = "user"]
    /\ result' = [result EXCEPT ![f] = UserForm(errors[f], DEFAULT_HOST)]
    /\ UNCHANGED <<entries, host, errors, info, filtered_sensor_types, user_input,
                   can_connect, log, opt>>

\* async_step_user(user_input) up to its first await, lines 87-94 and 99-107.
UserSubmit(f, h) ==
    /\ pc[f] = "user"
    /\ host' = [host EXCEPT ![f] = h]
    /\ IF HostInConfigurationExists(h)
       THEN /\ errors' = [errors EXCEPT ![f] = DictSet(@, CONF_HOST, "host_exists")]
            /\ result' = [result EXCEPT ![f] = UserForm(errors'[f], h)]
            /\ pc' = pc
       ELSE /\ pc' = [pc EXCEPT ![f] = "check_host"]
            /\ result' = [result EXCEPT ![f] = Pending]
            /\ errors' = errors
    /\ UNCHANGED <<entries, source, info, filtered_sensor_types, user_input,
                   can_connect, log, opt>>

\* The executor job _check_host ends with the device's reply and the step runs
\* to its next await or to its return: lines 95-107 (user) and 144-145 (import).
CheckHostDone(f, reply) ==
    /\ pc[f] = "check_host"
    /\ LET r == CheckHost(reply, errors[f], info[f]) IN
       /\ errors' = [errors EXCEPT ![f] = r.errors]
       /\ info' = [info EXCEPT ![f] = r.info]
       /\ can_connect' = [can_connect EXCEPT ![f] = r.ret]
       /\ log' = [log EXCEPT ![f] = IF r.log # "" THEN r.log ELSE @]
       /\ IF source[f] = "import" \/ r.ret
          THEN /\ pc' = [pc EXCEPT ![f] = "get_sensors"]
               /\ result' = result
          ELSE /\ pc' = [pc EXCEPT ![f] = "user"]
               /\ result' = [result EXCEPT ![f] = UserForm(r.errors, host[f])]
    /\ UNCHANGED <<entries, source, host, filtered_sensor_types, user_input, opt>>

\* The executor job _get_sensors ends with the device's reply and the step runs
\* on into async_step_sensors: lines 96-97 (user) and 145-146 (import).
GetSensorsDone(f, reply) ==
    /\ pc[f] = "get_sensors"
    /\ LET g == GetSensors(reply, filtered_sensor_types[f]) IN
       IF source[f] = "user"
       THEN /\ filtered_sensor_types' = [filtered_sensor_types EXCEPT ![f] = g.catalog]
            /\ log' = [log EXCEPT ![f] = IF g.log # "" THEN g.log ELSE @]
            /\ IF g.raised # ""
               THEN /\ result' = [result EXCEPT ![f] = Raise(g.raised)]
                    /\ pc' = [pc EXCEPT ![f] = "user"]
               ELSE /\ result' = [result EXCEPT ![f] =
                                    SensorsForm(entries, errors[f], g.catalog)]
                    /\ pc' = [pc EXCEPT ![f] = "sensors"]
            /\ UNCHANGED <<entries, source, host, errors, info, user_input, can_connect>>
       ELSE IF g.raised # ""
       THEN /\ Dropped(f, Raise(g.raised))
            /\ UNCHANGED entries
       ELSE LET s == SensorsSubmitted(user_input[f], host[f], info[f], g.catalog) IN
            /\ entries' = Persist(entries, s.result)
            /\ Dropped(f, s.result)
    /\ UNCHANGED opt

\* async_step_sensors(user_input) on the sensors form; the form's schema
\* (cv.multi_select over the catalog, line 131) has validated the selection.
SensorsSubmit(f, sel) ==
    /\ pc[f] = "sensors"
    /\ sel \subseteq Keys(filtered_sensor_types[f])
    /\ LET s == SensorsSubmitted(FormInput(sel), host[f], info[f], filtered_sensor_types[f]) IN
       /\ entries' = Persist(entries, s.result)
       /\ IF s.result.type = "raise"
          THEN /\ result' = [result EXCEPT ![f] = s.result]
               /\ info' = [info EXCEPT ![f] = s.info]
               /\ UNCHANGED <<pc, source, host, errors, filtered_sensor_types, user_input,
                              can_connect, log>>
          ELSE Dropped(f, s.result)
    /\ UNCHANGED opt

\* A faulty variant: the import does not look the host up among the entries.
ImportUnchecked(f, input) ==
    /\ NextFlow(f)
    /\ source' = [source EXCEPT ![f] = "import"]
    /\ host' = [host EXCEPT ![f] = input.host]
    /\ user_input' = [user_input EXCEPT ![f] = input]
    /\ pc' = [pc EXCEPT ![f] = "check_host"]
    /\ result' = [result EXCEPT ![f] = Pending]
    /\ UNCHANGED <<errors, info, filtered_sensor_types, can_connect, log, entries, opt>>

\* async_step_import(user_input) up to its first await, lines 141-144.
Import(f, input) ==
    /\ NextFlow(f)
    /\ IF HostInConfigurationExists(input.host)
       THEN Dropped(f, Abort("host_exists"))
       ELSE /\ source' = [source EXCEPT ![f] = "import"]
            /\ host' = [host EXCEPT ![f] = input.host]
            /\ user_input' = [user_input EXCEPT ![f] = input]
            /\ pc' = [pc EXCEPT ![f] = "check_host"]
            /\ result' = [result EXCEPT ![f] = Pending]
            /\ UNCHANGED <<errors, info, filtered_sensor_types, can_connect, log>>
    /\ UNCHANGED <<entries, opt>>

\* The user abandons a form and the runtime drops the session.
Discard(f) ==
    /\ pc[f] \in {"user", "sensors"}
    /\ Dropped(f, NoResult)
    /\ UNCHANGED <<entries, opt>>

(***************************************************************************)
(* The options editor.                                                     *)
(***************************************************************************)
\* A faulty variant: the default is taken whatever the options record holds.
OptionsGetDefaultOnly(options, key, default) == default

\* dict.get(key, default) on an options record.
OptionsGet(options, key, default) ==
    IF key \in DOMAIN options THEN options[key] ELSE default

\* async_step_init(None), lines 171-182, for config entry e and the catalog
\* the handler read from it.
OptionsForm(e, catalog) ==
    ShowForm("init", EmptyDict,
             OptionsGet(e.options, CONF_MONITORED_CONDITIONS, DEFAULT_MONITORED_CONDITIONS),
             Keys(catalog))

\* A faulty variant: the submitted selection is merged into the monitored
\* conditions the entry holds.
OptionsSubmittedMerging(e, sel) ==
    CreateEntry("", (CONF_MONITORED_CONDITIONS :>
        (sel \cup OptionsGet(e.options, CONF_MONITORED_CONDITIONS,
                             e.data.monitored_conditions))))

\* async_step_init(user_input), lines 163-169, of the handler of config entry e.
OptionsSubmitted(e, sel) ==
    CreateEntry("", (CONF_MONITORED_CONDITIONS :> sel))

\* A faulty variant: opening the editor computes the catalog anew, as if every
\* key of the table were reported, and stores it in the entry.
OptionsInitRefreshing(i) ==
    /\ opt.pc = "closed"
    /\ i \in DOMAIN entries
    /\ LET catalog == FilterSensorTypes(SENSOR_TYPES, JsonKeys) IN
       /\ opt' = [pc |-> "init", entry |-> i, filtered_sensor_types |-> catalog,
                  result |-> OptionsForm(entries[i], catalog)]
       /\ entries' = [entries EXCEPT ![i].data.filtered_sensor_types = catalog]
    /\ UNCHANGED <<pc, source, host, errors, info, filtered_sensor_types,
                   user_input, can_connect, log, result>>

\* The runtime opens the options editor on entry i: __init__ and
\* async_step_init(None).
OptionsInit(i) ==
    /\ opt.pc = "closed"
    /\ i \in DOMAIN entries
    /\ LET catalog == entries[i].data.filtered_sensor_types IN
       opt' = [pc |-> "init", entry |-> i, filtered_sensor_types |-> catalog,
               result |-> OptionsForm(entries[i], catalog)]
    /\ UNCHANGED <<entries, pc, source, host, errors, info, filtered_sensor_types,
                   user_input, can_connect, log, result>>

\* async_step_init(user_input) on the options form; the form's schema
\* (cv.multi_select over the stored catalog, line 178) has validated the selection.
OptionsSubmit(sel) ==
    /\ opt.pc = "init"
    /\ sel \subseteq Keys(opt.filtered_sensor_types)
    /\ LET res == OptionsSubmitted(entries[opt.entry], sel) IN
       /\ opt' = [opt EXCEPT !.pc = "done", !.result = res]
       /\ entries' = [entries EXCEPT ![opt.entry].options = res.data]
    /\ UNCHANGED <<pc, source, host, errors, info, filtered_sensor_types,
                   user_input, can_connect, log, result>>

\* The options session ends, or the user abandons its form.
OptionsClose ==
    /\ opt.pc \in {"init", "done"}
    /\ opt' = OptClosed
    /\ UNCHANGED <<entries, pc, source, host, errors, info, filtered_sensor_types,
                   user_input, can_connect, log, result>>

(***************************************************************************)
(* Specifications.                                                         *)
(***************************************************************************)
\* A step of session f of the wizard.
FlowStep(f) ==
    \/ UserInit(f)
    \/ \E h \in Hosts : UserSubmit(f, h)
    \/ \E reply \in DevReplies(host[f]) : CheckHostDone(f, reply)
    \/ \E reply \in DataReplies : GetSensorsDone(f, reply)
    \/ \E sel \in SUBSET JsonKeys : SensorsSubmit(f, sel)
    \/ \E input \in ImportInputs : Import(f, input)
    \/ Discard(f)

\* A step of the options editor.
OptionsStep ==
    \/ \E i \in DOMAIN entries : OptionsInit(i)
    \/ \E sel \in SUBSET JsonKeys : OptionsSubmit(sel)
    \/ OptionsClose

\* The wizard: both sessions, in any interleaving.
Next == \E f \in Flows : FlowStep(f)

Spec == Init /\ [][Next]_vars

\* The options editor, over the entries one wizard session creates.
NextOptions == FlowStep(1) \/ OptionsStep

SpecOptions == Init /\ [][NextOptions]_vars

(***************************************************************************)
(* Properties.                                                             *)
(***************************************************************************)
\* C1: in every reachable state no two persisted config entries hold the
\* same host.
C1_NoTwoEntriesShareAHost ==
    \A i, j \in DOMAIN entries :
        i # j => entries[i].data.host # entries[j].data.host

\* C2: submitting in the user step a host that a persisted entry already
\* holds yields the field error host_exists on a redisplayed user form, with
\* no probe issued and no entry created.
C2_ExistingHostRedisplaysUserForm ==
    [][\A f \in Flows : pc[f] = "user" => \A h \in Hosts :
          (UserSubmit(f, h) /\ \E i \in DOMAIN entries : entries[i].data.host = h)
             => /\ result'[f].type = "form"
                /\ result'[f].step_id = "user"
                /\ result'[f].errors = (CONF_HOST :> "host_exists")
                /\ pc'[f] = "user"
                /\ entries' = entries]_vars

\* C2, reached: a user form shows host_exists for a host an entry holds.
C2_Witness ==
    \E f \in Flows :
        /\ pc[f] = "user"
        /\ result[f].type = "form"
        /\ result[f].errors = (CONF_HOST :> "host_exists")
        /\ \E i \in DOMAIN entries : entries[i].data.host = host[f]

\* C3 as stated: a mypv_dev.jsn probe that returns a status >= 400 or times
\* out (connect timeout or read timeout) yields could_not_connect in the user
\* step, which stays in state user.
C3_AnyTimeoutCouldNotConnect ==
    [][\A f \in Flows : pc[f] = "check_host" => \A reply \in DevReplies(host[f]) :
          (/\ CheckHostDone(f, reply)
           /\ source[f] = "user"
           /\ \/ reply.kind = "response" /\ reply.status >= 400
              \/ reply.kind = "exception" /\ reply.exc \in {"ConnectTimeout", "ReadTimeout"})
             => /\ result'[f].type = "form"
                /\ result'[f].step_id = "user"
                /\ result'[f].errors = (CONF_HOST :> "could_not_connect")
                /\ pc'[f] = "user"]_vars

\* C3, amended: a mypv_dev.jsn probe that returns a status >= 400 or fails
\* with a connect timeout yields could_not_connect in the user step; a read
\* timeout yields unexpected_error; in both cases the wizard stays in state
\* user.
C3_ConnectTimeoutCouldNotConnect ==
    [][\A f \in Flows : pc[f] = "check_host" => \A reply \in DevReplies(host[f]) :
          (CheckHostDone(f, reply) /\ source[f] = "user")
             => /\ (\/ reply.kind = "response" /\ reply.status >= 400
                    \/ reply.kind = "exception" /\ reply.exc = "ConnectTimeout")
                      => /\ result'[f].type = "form"
                         /\ result'[f].step_id = "user"
                         /\ result'[f].errors = (CONF_HOST :> "could_not_connect")
                         /\ pc'[f] = "user"
                /\ (reply.kind = "exception" /\ reply.exc = "ReadTimeout")
                      => /\ result'[f].type = "form"
                         /\ result'[f].step_id = "user"
                         /\ result'[f].errors = (CONF_HOST :> "unexpected_error")
                         /\ pc'[f] = "user"]_vars

\* C3, reached: the user form shows could_not_connect after a failed probe.
C3_Witness ==
    \E f \in Flows :
        /\ pc[f] = "user"
        /\ source[f] = "user"
        /\ ~can_connect[f]
        /\ log[f] = "Connection error"
        /\ result[f].type = "form"
        /\ result[f].errors = (CONF_HOST :> "could_not_connect")

\* C4: a config entry is created only in a session whose most recent
\* mypv_dev.jsn probe succeeded, on the user path and the import path alike.
C4_EntryOnlyAfterSuccessfulProbe ==
    [][\A f \in Flows :
          (pc[f] \in {"get_sensors", "sensors"} /\ result'[f].type = "create_entry")
             => can_connect[f]]_vars

\* C5: in every persisted entry the monitored conditions are a subset of the
\* keys of the catalog stored in the same entry.
C5_ConditionsWithinStoredCatalog ==
    \A i \in DOMAIN entries :
        entries[i].data.monitored_conditions
            \subseteq Keys(entries[i].data.filtered_sensor_types)

\* C6: when the sensors form is displayed its default selection is empty if
\* an entry exists, and otherwise {power1_solar, temp1} filtered to the keys
\* of the session's catalog.
C6_SensorsDefaultFilteredToCatalog ==
    [][\A f \in Flows :
          (pc[f] = "get_sensors" /\ pc'[f] = "sensors")
             => result'[f].default =
                  IF entries # <<>> THEN {}
                  ELSE DEFAULT_MONITORED_CONDITIONS \cap Keys(filtered_sensor_types'[f])]_vars

\* Catalog c holds exactly the keys that are both in the JSON key list ks and
\* in the table, each with the table's label, in the table's order.
IsTableOrderedIntersection(c, ks) ==
    LET Index(k) == CHOOSE n \in DOMAIN SENSOR_TYPES : SENSOR_TYPES[n].key = k IN
    /\ {c[i].key : i \in DOMAIN c}
         = {ks[i] : i \in DOMAIN ks} \cap {SENSOR_TYPES[n].key : n \in DOMAIN SENSOR_TYPES}
    /\ \A i \in DOMAIN c : c[i].label = SENSOR_TYPES[Index(c[i].key)].value[1]
    /\ \A i, j \in DOMAIN c : i < j => Index(c[i].key) < Index(c[j].key)

\* C7: for every successful data.jsn response the catalog the wizard computes
\* has exactly the response's keys that the sensor-type table knows, each
\* with the table's label, in the table's order.
C7_CatalogIsTableOrderedIntersection ==
    [][\A f \in Flows : (pc[f] = "get_sensors" /\ pc'[f] # "get_sensors") =>
       \A reply \in DataReplies :
          (Raised(reply) = "" /\ reply.body.type = "object" /\ GetSensorsDone(f, reply))
             => /\ source[f] = "user"
                  => IsTableOrderedIntersection(filtered_sensor_types'[f], reply.body.keys)
                /\ (source[f] = "import" /\ result'[f].type = "create_entry")
                  => IsTableOrderedIntersection(result'[f].data.filtered_sensor_types,
                                                reply.body.keys)]_vars

\* C7, reached: the sensors form offers a catalog of both table keys.
C7_Witness ==
    \E f \in Flows :
        /\ pc[f] = "sensors"
        /\ Len(filtered_sensor_types[f]) = Len(SENSOR_TYPES)
        /\ result[f].options = {"temp1", "power1_solar"}

C9_NoExceptionEscapes ==
    /\ \A f \in Flows : result[f].type \in {"none", "pending", "form", "create_entry", "abort"}
    /\ opt.result.type \in {"none", "form", "create_entry"}

\* C10: a submission of the options editor replaces the entry's options
\* record with exactly the submitted selection.
C10_OptionsReplacedBySubmission ==
    [][\A sel \in SUBSET JsonKeys :
          OptionsSubmit(sel)
             => entries'[opt.entry].options = (CONF_MONITORED_CONDITIONS :> sel)]_vars

\* C10, reached: the options record is the empty selection although the
\* entry was created with monitored conditions.
C10_Witness ==
    /\ opt.pc = "done"
    /\ opt.result.type = "create_entry"
    /\ entries[opt.entry].options = (CONF_MONITORED_CONDITIONS :> {})
    /\ entries[opt.entry].data.monitored_conditions # {}

\* C11: while the options editor displays its form, the form's pre-selection
\* is the monitored conditions of the entry's options record if the record
\* holds them, and the pair {power1_solar, temp1} if it does not.
C11_OptionsDefaultIsCurrentOptions ==
    opt.pc = "init" =>
        /\ opt.result.type = "form"
        /\ opt.result.step_id = "init"
        /\ LET options == entries[opt.entry].options IN
           opt.result.default =
               IF CONF_MONITORED_CONDITIONS \in DOMAIN options
               THEN options[CONF_MONITORED_CONDITIONS]
               ELSE {"power1_solar", "temp1"}

\* C11, reached: the editor is opened on an entry whose options record holds
\* one condition, and the form pre-selects that condition.
C11_Witness ==
    /\ opt.pc = "init"
    /\ CONF_MONITORED_CONDITIONS \in DOMAIN entries[opt.entry].options
    /\ entries[opt.entry].options[CONF_MONITORED_CONDITIONS] = {"temp1"}
    /\ opt.result.default = {"temp1"}

\* C12: an import whose host a persisted entry already holds aborts at once
\* with reason host_exists: no probe is started, the session ends and the
\* entries stay as they are.
C12_ImportOfExistingHostAborts ==
    [][\A f \in Flows : (pc[f] = "idle" /\ pc'[f] # "idle") =>
         \A input \in ImportInputs :
            (input.host \in {entries[i].data.host : i \in DOMAIN entries}
                /\ Import(f, input))
               => /\ result'[f].type = "abort"
                  /\ result'[f].reason = "host_exists"
                  /\ pc'[f] = "done"
                  /\ host'[f] = NoHost
                  /\ user_input'[f] = NoInput
                  /\ entries' = entries]_vars

\* C12, reached: a session has ended in the abort host_exists while an entry
\* exists and no other session is in progress.
C12_Witness ==
    \E f \in Flows :
        /\ result[f].type = "abort"
        /\ result[f].reason = "host_exists"
        /\ Len(entries) = 1
        /\ \A g \in Flows : pc[g] = "done"

\* C13: no step changes the title or the data record (host, monitored
\* conditions, catalog) of an entry that exists; the options form offers
\* exactly the keys of the catalog stored in its entry; and a step of the
\* options editor starts no probe and changes nothing of a wizard session.
C13_EntryDataFrozen ==
    [][/\ \A i \in DOMAIN entries :
            /\ i \in DOMAIN entries'
            /\ entries'[i].data = entries[i].data
            /\ entries'[i].title = entries[i].title
       /\ opt'.pc = "init" =>
            /\ opt'.filtered_sensor_types = entries'[opt'.entry].data.filtered_sensor_types
            /\ opt'.result.options = Keys(entries'[opt'.entry].data.filtered_sensor_types)
       /\ opt' # opt =>
            UNCHANGED <<pc, source, host, errors, info, filtered_sensor_types,
                        user_input, can_connect, log, result>>]_vars

\* C13, reached: the editor is opened again, after a submission, on an entry
\* whose stored catalog has one key, and offers that key.
C13_Witness ==
    /\ opt.pc = "init"
    /\ entries[opt.entry].options # NoOptions
    /\ Len(entries[opt.entry].data.filtered_sensor_types) = 1
    /\ opt.result.options = {"power1_solar"}

\* C14: the persisted entries change only by the entry that
\* async_step_sensors(user_input) creates, called on a submission of the
\* sensors form or by async_step_import at its end: displaying a form, a
\* user submission, a probe of the interactive path and abandoning a session
\* leave the entries as they are.
C14_EntriesChangeOnlyBySensorsSubmission ==
    [][entries' # entries =>
          \E f \in Flows :
              /\ pc[f] = "sensors" \/ (pc[f] = "get_sensors" /\ source[f] = "import")
              /\ pc'[f] = "done"
              /\ result'[f].type = "create_entry"
              /\ entries' = Append(entries, ConfigEntry(result'[f]))]_vars

\* C14, reached: one session was abandoned, the other has created the only
\* entry.
C14_Witness ==
    \E f, g \in Flows :
        /\ pc[f] = "done" /\ result[f] = NoResult
        /\ pc[g] = "done" /\ result[g].type = "create_entry"
        /\ entries = <<ConfigEntry(result[g])>>

\* C15: in an interactive session the host is the one of the last user
\* submission, a successful probe stores the device info of that host, host,
\* device info and catalog stay as they are up to the submission of the
\* sensors form, and the entry created then has that host, the title
\* "{device} - {number}" of that host's device info and the session's catalog.
C15_EntryFromLastSubmittedHost ==
    [][\A f \in Flows : (source[f] = "user" /\ pc[f] # "idle") =>
          /\ pc[f] = "user" => \A h \in Hosts : UserSubmit(f, h) => host'[f] = h
          /\ (pc[f] # "user" /\ pc'[f] # "done") => host'[f] = host[f]
          /\ (pc[f] = "check_host" /\ pc'[f] = "get_sensors" /\ info'[f].type = "object")
                => info'[f] = DeviceInfo(host[f])
          /\ (pc[f] \in {"get_sensors", "sensors"} /\ pc'[f] = "sensors")
                => info'[f].type = info[f].type
          /\ (pc[f] = "sensors" /\ pc'[f] = "sensors")
                => filtered_sensor_types'[f] = filtered_sensor_types[f]
          /\ (pc[f] = "sensors" /\ result'[f].type = "create_entry")
                => /\ result'[f].data.host = host[f]
                   /\ result'[f].title =
                        DeviceInfo(host[f]).device.v \o " - " \o DeviceInfo(host[f]).number.v
                   /\ result'[f].data.filtered_sensor_types = filtered_sensor_types[f]
                   /\ Keys(result'[f].data.filtered_sensor_types) = result[f].options]_vars

\* C15, reached: an interactive session has created the entry of host
\* 192.168.1.51 with both conditions selected (no import selects both).
C15_Witness ==
    \E f \in Flows :
        /\ result[f].type = "create_entry"
        /\ result[f].data.host = "192.168.1.51"
        /\ result[f].title = "AC - 8"
        /\ result[f].data.monitored_conditions = {"temp1", "power1_solar"}

\* C16: a session's data.jsn request is in flight only when the session's
\* mypv_dev.jsn probe has succeeded.
C16_DataFetchOnlyAfterSuccessfulProbe ==
    \A f \in Flows : pc[f] = "get_sensors" => can_connect[f]

\* C17: in an interactive session a failed user submission leaves the session
\* in state user with no probe in flight, a successful probe is followed by
\* the data.jsn fetch, and the step then ends in state sensors.
C17_FailedSubmissionsRecoverable ==
    [][\A f \in Flows : (source[f] = "user" /\ pc'[f] # pc[f]) =>
          /\ (pc[f] = "check_host" /\ ~can_connect'[f])
                => /\ pc'[f] = "user"
                   /\ result'[f].type = "form"
                   /\ result'[f].step_id = "user"
          /\ (pc[f] = "check_host" /\ can_connect'[f]) => pc'[f] = "get_sensors"
          /\ pc[f] = "get_sensors" => pc'[f] = "sensors"]_vars

\* C18: the sensors form, whenever it is displayed, shows no error.
C18_SensorsFormShowsNoError ==
    \A f \in Flows :
        (pc[f] = "sensors" /\ result[f].type = "form" /\ result[f].step_id = "sensors")
            => result[f].errors = EmptyDict

\* C19: while the options editor displays its form, the pre-selected
\* monitored conditions are among the keys the form offers.
C19_OptionsDefaultWithinOffered ==
    (opt.pc = "init" /\ opt.result.type = "form")
        => opt.result.default \subseteq opt.result.options

=============================================================================
